---- MODULE Spec2Model ----
(***************************************************************************)
(* Model of packages/cli/lib/Creator.js: one Creator instance, after its   *)
(* constructor has returned, executing create(cliOptions, preset).         *)
(* Every awaited operation of create() is a pair of steps: the step that   *)
(* starts it (the code up to the await) and the step on which it settles   *)
(* (resolved or rejected), after which the code continues or unwinds.      *)
(***************************************************************************)
EXTENDS Integers, Sequences, FiniteSets, TLC

VARIABLES
  host,               \* what hasGit(), hasYarn(), hasPnpm3OrLater() answer
  savedOptions,       \* what loadOptions() returns
  pc,                 \* position of the create() call
  cliOptions,         \* first argument of create()
  isTestOrDebug,      \* line 55
  preset,             \* the local variable `preset` of create()
  packageManager,     \* line 64
  shouldInitGit,      \* line 90
  rp,                 \* the latest resolvePreset call
  presetRef,          \* the object the local `preset` refers to
  callerPreset,       \* the object the caller passed as preset
  runBase,            \* the callback counter when the create() call began
  envContext,         \* process.env.VUE_CLI_CONTEXT
  hookIter,           \* the hook step seen through its iterators
  outroPrompts,       \* this.outroPrompts, line 42
  keys,               \* Object.keys(rawPlugins) still to visit in resolvePlugins
  plugins,            \* the array built by resolvePlugins
  afterInvokeCbs,     \* this.afterInvokeCbs
  afterAnyInvokeCbs,  \* this.afterAnyInvokeCbs
  cur,                \* locals of the resolvePlugins iteration in progress
  idx1,               \* callbacks the iterator over afterInvokeCbs has yielded
  idx2,               \* callbacks the iterator over afterAnyInvokeCbs has yielded
  nextCb,             \* identity given to the next callback that is created
  gitCommitFailed,    \* line 136
  files,              \* files present in the target directory
  applied,            \* plugin ids whose apply the generator has invoked
  invoked,            \* callbacks called by the hook step, in call order
  trace,              \* observable effects of the run, in order
  err                 \* the error create() rejected with, "none" otherwise

vars == << host, savedOptions, pc, cliOptions, isTestOrDebug, preset,
           packageManager, shouldInitGit, keys, plugins, cur, afterInvokeCbs,
           afterAnyInvokeCbs, idx1, idx2, nextCb, gitCommitFailed, files,
           applied, invoked, trace, err, outroPrompts, rp, presetRef,
           callerPreset, runBase, envContext, hookIter >>

\* Largest number of hook callbacks ever created in one behaviour.
MaxCbs == 2

None == "none"

-----------------------------------------------------------------------------
(* Values *)

\* A plugins value: a proper id -> options map (kept as the ordered list of
\* its entries), a missing one (undefined), or a malformed one (the string "x").
PluginMap(entries) == [kind |-> "map", entries |-> entries]
MissingPlugins == [kind |-> "undefined", entries |-> << >>]
StringPlugins == [kind |-> "string", entries |-> << >>]

Entry(id, opts) == [id |-> id, opts |-> opts]

\* Raw options: "plain" is {}, "prompts" is { prompts: true }, "null" is a
\* falsy value.
PresetAB == [present |-> TRUE,
             plugins |-> PluginMap(<< Entry("plugin-a", "plain"), Entry("plugin-b", "prompts") >>)]
PresetB == [present |-> TRUE, plugins |-> PluginMap(<< Entry("plugin-b", "null") >>)]
PresetNoPlugins == [present |-> TRUE, plugins |-> MissingPlugins]
PresetBadPlugins == [present |-> TRUE, plugins |-> StringPlugins]
Undefined == [present |-> FALSE, plugins |-> MissingPlugins]

\* Presets a caller can pass to create(); Undefined stands for every falsy
\* argument (the default null included).
CallerPresets == {Undefined, PresetAB, PresetNoPlugins, PresetBadPlugins}

PresetC == [present |-> TRUE, plugins |-> PluginMap(<< Entry("plugin-c", "plain") >>)]
PresetR == [present |-> TRUE, plugins |-> PluginMap(<< Entry("plugin-r", "plain") >>)]

\* The choices of presetPrompt.
PresetChoices == {"webpack", "rollup", "vite"}

\* The names with a "/" in them: name.includes('/').
SlashNames == {"owner/repo", "org/saved"}
Includes(name, sub) == sub = "/" /\ name \in SlashNames

\* What answers.preset can be: a choice of presetPrompt, or any other name
\* when a prompt module injected a prompt of the same name (lines 50-51 and
\* 319): the code does not check the answer against the choices.
InterviewAnswers == PresetChoices \cup SlashNames

\* What loadRemotePreset can resolve with.
RemotePresets == {PresetR}

\* loadOptions().presets: "webpack" and "org/saved" are saved and valid,
\* "rollup" is saved with a plugins value that is no map, "vite" and
\* "owner/repo" are not saved.
SavedPresets ==
  [n \in {"webpack", "rollup", "org/saved"} |->
     CASE n = "webpack" -> PresetB
       [] n = "rollup" -> PresetBadPlugins
       [] OTHER -> PresetC]

CliOptionsSet == [packageManager : {None, "pnpm"}, git : {None, "false"}]

Resolved(id, apply, options) == [id |-> id, apply |-> apply, options |-> options]
NoCur == Resolved("", "noop", "plain")

-----------------------------------------------------------------------------
(* Pure helpers of the source *)

\* Object.keys(x) followed by x[key], as { id, opts } pairs: a TypeError for
\* undefined, the character indices for a string.
KeysThrow(p) == p.kind = "undefined"
ObjectEntries(p) ==
  CASE p.kind = "map" -> p.entries
    [] p.kind = "string" -> << Entry("0", "char") >>
    [] OTHER -> << >>

\* Variant: the saved configuration wins over the CLI option.
SelectPackageManager_SavedFirst(cli, saved, h) ==
  IF saved.packageManager # None THEN saved.packageManager
  ELSE IF cli.packageManager # None THEN cli.packageManager
  ELSE IF h.yarn THEN "yarn"
  ELSE IF h.pnpm THEN "pnpm" ELSE "npm"

SelectPackageManager(cli, saved, h) ==
  IF cli.packageManager # None THEN cli.packageManager
  ELSE IF saved.packageManager # None THEN saved.packageManager
  ELSE IF h.yarn THEN "yarn"
  ELSE IF h.pnpm THEN "pnpm" ELSE "npm"

\* Variant: hasGit() is not consulted.
ShouldInitGit_Always(cli, h) == TRUE

ShouldInitGit(cli, h) == IF ~h.git THEN FALSE ELSE TRUE

ResolvePreset(name, saved) ==
  IF name \in DOMAIN saved.presets THEN saved.presets[name] ELSE Undefined

\* The remote branch is tested first.
Branch_RemoteFirst(name, saved) ==
  IF Includes(name, "/") THEN "remote"
  ELSE IF name \in DOMAIN saved.presets THEN "saved" ELSE "none"

\* Lines 185-187: if (name in savedPresets) ... else if (name.includes('/'))
Branch(name, saved) ==
  IF name \in DOMAIN saved.presets THEN "saved"
  ELSE IF Includes(name, "/") THEN "remote" ELSE "none"

\* Which object a reference to a preset points at: the caller's argument, the
\* entry `name` of the saved presets, what the remote loader returned, or a
\* copy nobody else holds.
Ref(kind, name) == [kind |-> kind, name |-> name]
NoRef == Ref("none", "")

\* The object resolvePreset returns, lines 186, 190 and 211.
ResultRef(r) ==
  CASE r.state # "returned" -> NoRef
    [] r.name \in DOMAIN SavedPresets /\ r.fetches = 0 -> Ref("store", r.name)
    [] r.fetches > 0 -> Ref("remote", r.name)
    [] OTHER -> NoRef

\* The preset is used as it was passed or resolved.
CloneDeep_SameObject(ref) == ref

\* Line 62: preset = cloneDeep(preset)
CloneDeep(ref) == Ref("copy", "")

\* No resolvePreset call so far.
NoCall == [state |-> "none", name |-> "", caller |-> "", fetches |-> 0,
           spinner |-> "off", loaded |-> Undefined, result |-> Undefined]

\* Lines 179-189: resolvePreset(name) up to its return or to its await of
\* loadRemotePreset, the spinner started.
EnterResolvePreset(name, saved, caller) ==
  LET b == Branch(name, saved) IN
    [state |-> IF b = "remote" THEN "fetching" ELSE "returned",
     name |-> name,
     caller |-> caller,
     fetches |-> IF b = "remote" THEN 1 ELSE 0,
     spinner |-> IF b = "remote" THEN "on" ELSE "off",
     loaded |-> Undefined,
     result |-> IF b = "remote" THEN Undefined ELSE ResolvePreset(name, saved)]

\* Lines 189-190 and 211: the fetch resolved with p.
FetchSucceeded(r, p) ==
  [r EXCEPT !.state = "returned", !.spinner = "off", !.loaded = p, !.result = p]

\* The failure is swallowed and resolvePreset returns undefined.
FetchFailed_Swallowed(r) == [r EXCEPT !.state = "returned", !.spinner = "off"]

\* Lines 191-195: the fetch failed; catch (e) { stopSpinner(); ...; throw e }
FetchFailed(r) == [r EXCEPT !.state = "thrown", !.spinner = "off"]

\* validatePreset of ./options: throws unless the preset carries a plugins map.
ValidatePresetThrows(p) == ~p.present \/ p.plugins.kind # "map"

-----------------------------------------------------------------------------
\* The outro prompt asks whenever one of the other package managers is
\* installed, whatever the saved options say.
ResolveOutroPrompts_IgnoresSaved(saved, h) ==
  IF h.yarn \/ h.pnpm
    THEN << [name |-> "packageManager",
             choices |-> (IF h.yarn THEN << "yarn" >> ELSE << >>)
                           \o (IF h.pnpm THEN << "pnpm" >> ELSE << >>)
                           \o << "npm" >>] >>
    ELSE << >>

\* Lines 275-313: resolveOutroPrompts(), the prompts as the list of their
\* names and of the values of their choices.
ResolveOutroPrompts(saved, h) ==
  IF saved.packageManager = None /\ (h.yarn \/ h.pnpm)
    THEN LET c0 == << >>
             c1 == IF h.yarn THEN Append(c0, "yarn") ELSE c0
             c2 == IF h.pnpm THEN Append(c1, "pnpm") ELSE c1
             packageManagerChoices == Append(c2, "npm") IN
           << [name |-> "packageManager", choices |-> packageManagerChoices] >>
    ELSE << >>

\* The hook step not entered.
NoLoop == [entered |-> FALSE, rest1 |-> << >>, rest2 |-> << >>,
           running |-> "none", lastPush |-> "none", pushed |-> FALSE]

\* this.context of the instance, and the context of another instance.
Context == "/a"
OtherContext == "/b"

Init ==
  /\ host \in [git : BOOLEAN, yarn : BOOLEAN, pnpm : BOOLEAN]
  /\ savedOptions \in [packageManager : {None, "npm"}, presets : {SavedPresets}]
  /\ pc = "idle"
  /\ cliOptions = [packageManager |-> None, git |-> None]
  /\ isTestOrDebug = FALSE
  /\ preset = Undefined
  /\ packageManager = None
  /\ shouldInitGit = FALSE
  /\ keys = << >>
  /\ plugins = << >>
  /\ afterInvokeCbs = << >>
  /\ afterAnyInvokeCbs = << >>
  /\ cur = NoCur
  /\ idx1 = 0
  /\ idx2 = 0
  /\ nextCb = 1
  /\ gitCommitFailed = FALSE
  /\ files = {}
  /\ applied = << >>
  /\ invoked = << >>
  /\ trace = << >>
  /\ err = None
  /\ outroPrompts = ResolveOutroPrompts(savedOptions, host)
  /\ rp = NoCall
  /\ presetRef = NoRef
  /\ callerPreset = Undefined
  /\ runBase = 1
  /\ envContext = Context
  /\ hookIter = NoLoop

-----------------------------------------------------------------------------
(* Control flow of create() *)

\* Variant: the README is written after the commit step.
Then_ReadmeAfterCommit(step) ==
  CASE step = "select" -> "manifest"
    [] step = "manifest" -> "gitinit"
    [] step = "gitinit" -> "resolve"
    [] step = "resolve" -> "generator"
    [] step = "generator" -> "install"
    [] step = "install" -> "hooks1"
    [] step = "hooks1" -> "hooks2"
    [] step = "hooks2" -> "commit"
    [] step = "commit" -> "readme"
    [] step = "readme" -> "report"
    [] OTHER -> "done"

\* Variant: dependencies are installed before the generator is constructed.
Then_InstallBeforeGenerator(step) ==
  CASE step = "select" -> "manifest"
    [] step = "manifest" -> "gitinit"
    [] step = "gitinit" -> "resolve"
    [] step = "resolve" -> "install"
    [] step = "install" -> "generator"
    [] step = "generator" -> "hooks1"
    [] step = "hooks1" -> "hooks2"
    [] step = "hooks2" -> "readme"
    [] step = "readme" -> "commit"
    [] step = "commit" -> "report"
    [] OTHER -> "done"

\* The statement order of create(): the position reached when a step is over.
Then(step) ==
  CASE step = "select" -> "manifest"
    [] step = "manifest" -> "gitinit"
    [] step = "gitinit" -> "resolve"
    [] step = "resolve" -> "generator"
    [] step = "generator" -> "install"
    [] step = "install" -> "hooks1"
    [] step = "hooks1" -> "hooks2"
    [] step = "hooks2" -> "readme"
    [] step = "readme" -> "commit"
    [] step = "commit" -> "report"
    [] OTHER -> "done"

Begin(op) == << "begin", op >>
End(op) == << "end", op >>
Fail(op) == << "fail", op >>
Emit(tag) == << "emit", tag >>

\* Variant: a rejected README write is swallowed.
Reject_ReadmeSwallowed(op) ==
  /\ pc' = IF op = "write README.md" THEN "commit" ELSE "failed"
  /\ err' = IF op = "write README.md" THEN err ELSE op
  /\ trace' = Append(trace, << "fail", op >>)

\* An awaited operation rejected and nothing catches it: create() rejects.
Reject(op) ==
  /\ pc' = "failed"
  /\ err' = op
  /\ trace' = Append(trace, Fail(op))

\* A synchronous throw inside create().
Throw(e) ==
  /\ pc' = "failed"
  /\ err' = e
  /\ UNCHANGED trace

\* Lines 54-60: create() is entered; without a preset the interview starts.
Create ==
  /\ pc = "idle"
  /\ rp.state # "fetching"
  /\ \E cli \in CliOptionsSet, p \in CallerPresets, t \in BOOLEAN :
       /\ cliOptions' = cli
       /\ isTestOrDebug' = t
       /\ preset' = p
       /\ callerPreset' = p
       /\ presetRef' = IF p.present THEN Ref("caller", "") ELSE NoRef
       /\ IF ~p.present
            THEN /\ pc' = "prompt"
                 /\ trace' = Append(trace, Begin("interview"))
            ELSE /\ pc' = "select"
                 /\ UNCHANGED trace
  /\ UNCHANGED << host, savedOptions, packageManager, shouldInitGit, keys,
                  plugins, cur, afterInvokeCbs, afterAnyInvokeCbs, idx1, idx2,
                  nextCb, gitCommitFailed, files, applied, invoked, err >>
  /\ rp' = NoCall
  /\ UNCHANGED << outroPrompts, runBase, envContext, hookIter >>

\* Lines 166-177 and 179-212: the interview is answered, the preset is looked
\* up and validated.
PromptAnswered ==
  /\ pc = "prompt"
  /\ \E name \in InterviewAnswers :
       LET r == EnterResolvePreset(name, savedOptions, "create") IN
         /\ rp' = r
         /\ presetRef' = ResultRef(r)
         /\ IF r.state = "fetching"
              THEN /\ trace' = trace \o << End("interview"),
                                           Begin("remote preset") >>
                   /\ pc' = "fetch"
                   /\ UNCHANGED << preset, err >>
              ELSE /\ preset' = r.result
                   /\ trace' = Append(trace, End("interview"))
                   /\ IF ValidatePresetThrows(r.result)
                        THEN pc' = "failed" /\ err' = "InvalidPreset"
                        ELSE pc' = "select" /\ UNCHANGED err
  /\ UNCHANGED << host, savedOptions, cliOptions, isTestOrDebug,
                  packageManager, shouldInitGit, keys, plugins, cur,
                  afterInvokeCbs, afterAnyInvokeCbs, idx1, idx2, nextCb,
                  gitCommitFailed, files, applied, invoked >>
  /\ UNCHANGED << outroPrompts, callerPreset, runBase, envContext,
                  hookIter >>

\* Lines 189-196, 211 and 172-176: the fetch awaited by the resolvePreset call
\* of the run settles, and promptAndResolvePreset goes on or the failure leaves
\* create().
FetchSettled ==
  /\ pc = "fetch"
  /\ \E ok \in BOOLEAN, p \in RemotePresets :
       LET r == IF ok THEN FetchSucceeded(rp, p) ELSE FetchFailed(rp)
           settled == Append(trace, << IF ok THEN "resolved" ELSE "rejected",
                                       "loadRemotePreset" >>) IN
         /\ rp' = r
         /\ presetRef' = ResultRef(r)
         /\ IF r.state = "thrown"
              THEN /\ pc' = "failed"
                   /\ err' = "remote preset"
                   /\ trace' = Append(settled, Fail("remote preset"))
                   /\ UNCHANGED preset
              ELSE /\ preset' = r.result
                   /\ trace' = Append(settled, End("remote preset"))
                   /\ IF ValidatePresetThrows(r.result)
                        THEN pc' = "failed" /\ err' = "InvalidPreset"
                        ELSE pc' = "select" /\ UNCHANGED err
  /\ UNCHANGED << host, savedOptions, cliOptions, isTestOrDebug,
                  packageManager, shouldInitGit, keys, plugins, cur,
                  afterInvokeCbs, afterAnyInvokeCbs, idx1, idx2, nextCb,
                  gitCommitFailed, files, applied, invoked >>
  /\ UNCHANGED << outroPrompts, callerPreset, runBase, envContext,
                  hookIter >>

\* Line 169: inquirer.prompt rejects.
PromptRejected ==
  /\ pc = "prompt"
  /\ Reject("interview")
  /\ UNCHANGED << host, savedOptions, cliOptions, isTestOrDebug, preset,
                  packageManager, shouldInitGit, keys, plugins, cur,
                  afterInvokeCbs, afterAnyInvokeCbs, idx1, idx2, nextCb,
                  gitCommitFailed, files, applied, invoked >>
  /\ UNCHANGED << outroPrompts, rp, presetRef, callerPreset, runBase,
                  envContext, hookIter >>

\* Lines 62-73: deep copy, package-manager choice.
SelectStep ==
  /\ pc = "select"
  /\ preset' = preset
  /\ presetRef' = CloneDeep(presetRef)
  /\ packageManager' = SelectPackageManager(cliOptions, savedOptions, host)
  /\ pc' = Then("select")
  /\ UNCHANGED << host, savedOptions, cliOptions, isTestOrDebug,
                  shouldInitGit, keys, plugins, cur, afterInvokeCbs,
                  afterAnyInvokeCbs, idx1, idx2, nextCb, gitCommitFailed,
                  files, applied, invoked, trace, err >>
  /\ UNCHANGED << outroPrompts, rp, callerPreset, runBase, envContext,
                  hookIter >>

\* Lines 76-88: Object.keys(preset.plugins), then the manifest write starts.
BeginManifest ==
  /\ pc = "manifest"
  /\ IF ~preset.present \/ KeysThrow(preset.plugins)
       THEN Throw("TypeError")
       ELSE /\ pc' = "manifest_w"
            /\ trace' = Append(trace, Begin("write package.json"))
            /\ UNCHANGED err
  /\ UNCHANGED << host, savedOptions, cliOptions, isTestOrDebug, preset,
                  packageManager, shouldInitGit, keys, plugins, cur,
                  afterInvokeCbs, afterAnyInvokeCbs, idx1, idx2, nextCb,
                  gitCommitFailed, files, applied, invoked >>
  /\ UNCHANGED << outroPrompts, rp, presetRef, callerPreset, runBase,
                  envContext, hookIter >>

\* Line 86: writeFileTree settles.
EndManifest ==
  /\ pc = "manifest_w"
  /\ \/ /\ files' = files \cup {"package.json"}
        /\ trace' = Append(trace, End("write package.json"))
        /\ pc' = Then("manifest")
        /\ UNCHANGED err
     \/ /\ Reject("write package.json")
        /\ UNCHANGED files
  /\ UNCHANGED << host, savedOptions, cliOptions, isTestOrDebug, preset,
                  packageManager, shouldInitGit, keys, plugins, cur,
                  afterInvokeCbs, afterAnyInvokeCbs, idx1, idx2, nextCb,
                  gitCommitFailed, applied, invoked >>
  /\ UNCHANGED << outroPrompts, rp, presetRef, callerPreset, runBase,
                  envContext, hookIter >>

\* Lines 90-95.
GitInit ==
  /\ pc = "gitinit"
  /\ shouldInitGit' = ShouldInitGit(cliOptions, host)
  /\ IF shouldInitGit'
       THEN /\ trace' = trace \o << Emit("git-init"), Begin("git init") >>
            /\ pc' = "gitinit_w"
       ELSE /\ pc' = Then("gitinit")
            /\ UNCHANGED trace
  /\ UNCHANGED << host, savedOptions, cliOptions, isTestOrDebug, preset,
                  packageManager, keys, plugins, cur, afterInvokeCbs,
                  afterAnyInvokeCbs, idx1, idx2, nextCb, gitCommitFailed,
                  files, applied, invoked, err >>
  /\ UNCHANGED << outroPrompts, rp, presetRef, callerPreset, runBase,
                  envContext, hookIter >>

\* Line 94: `git init` exits.
EndGitInit ==
  /\ pc = "gitinit_w"
  /\ \/ /\ files' = files \cup {".git"}
        /\ trace' = Append(trace, End("git init"))
        /\ pc' = Then("gitinit")
        /\ UNCHANGED err
     \/ /\ Reject("git init")
        /\ UNCHANGED files
  /\ UNCHANGED << host, savedOptions, cliOptions, isTestOrDebug, preset,
                  packageManager, shouldInitGit, keys, plugins, cur,
                  afterInvokeCbs, afterAnyInvokeCbs, idx1, idx2, nextCb,
                  gitCommitFailed, applied, invoked >>
  /\ UNCHANGED << outroPrompts, rp, presetRef, callerPreset, runBase,
                  envContext, hookIter >>

\* Lines 97-104 and 215-216: resolvePlugins is entered.
ResolveStart ==
  /\ pc = "resolve"
  /\ trace' = trace \o << Emit("plugins-install"), Begin("resolvePlugins") >>
  /\ keys' = ObjectEntries(preset.plugins)
  /\ plugins' = << >>
  /\ pc' = "resolve_loop"
  /\ UNCHANGED << host, savedOptions, cliOptions, isTestOrDebug, preset,
                  packageManager, shouldInitGit, cur, afterInvokeCbs,
                  afterAnyInvokeCbs, idx1, idx2, nextCb, gitCommitFailed,
                  files, applied, invoked, err >>
  /\ UNCHANGED << outroPrompts, rp, presetRef, callerPreset, runBase,
                  envContext, hookIter >>

\* rawPlugins[id] || {}
RawOptions(opts) == IF opts = "null" THEN "plain" ELSE opts

\* A forgotten fallback: the entry keeps loadModule's undefined.
LoadGenerator_NoFallback(found) == IF found THEN "generator" ELSE "undefined"

\* Line 217: loadModule(`${id}/generator`, ...) || (() => {})
LoadGenerator(found) == IF found THEN "generator" ELSE "noop"

\* The flag alone decides, whether or not a prompt schema was loaded.
RunsSubInterview_FlagOnly(options, promptsFound) == options = "prompts"

\* Lines 219-222: if (options.prompts) { prompts = loadModule(...); if (prompts)
RunsSubInterview(options, promptsFound) == options = "prompts" /\ promptsFound

\* plugins.unshift in place of plugins.push.
PushPlugin_Unshift(pls, entry) == << entry >> \o pls

\* Line 227: plugins.push({ id, apply, options })
PushPlugin(pls, entry) == Append(pls, entry)

\* What loadModule returned for the plugin `id`, as events of the trace.
LoadEvents(id, genFound, promptsFound) ==
  (IF genFound THEN << >> ELSE << << "no generator", id >> >>)
    \o (IF promptsFound THEN << << "prompts found", id >> >> ELSE << >>)

\* Lines 216-228: one iteration, up to its await or its push. loadModule finds
\* the generator and the prompts module or not.
ResolveNext ==
  /\ pc = "resolve_loop"
  /\ keys # << >>
  /\ LET e == Head(keys)
         options == RawOptions(e.opts) IN
       \E genFound \in BOOLEAN,
          promptsFound \in (IF options = "prompts" THEN BOOLEAN ELSE {FALSE}) :
         LET apply == LoadGenerator(genFound)
             loaded == LoadEvents(e.id, genFound, promptsFound) IN
           IF RunsSubInterview(options, promptsFound)
             THEN /\ cur' = Resolved(e.id, apply, options)
                  /\ trace' = trace \o loaded
                                \o << Begin("plugin prompt") >>
                  /\ pc' = "plugin_prompt"
                  /\ UNCHANGED << keys, plugins >>
             ELSE /\ plugins' = PushPlugin(plugins,
                                           Resolved(e.id, apply, options))
                  /\ keys' = Tail(keys)
                  /\ trace' = trace \o loaded
                  /\ UNCHANGED << cur, pc >>
  /\ UNCHANGED << host, savedOptions, cliOptions, isTestOrDebug, preset,
                  packageManager, shouldInitGit, afterInvokeCbs,
                  afterAnyInvokeCbs, idx1, idx2, nextCb, gitCommitFailed,
                  files, applied, invoked, err >>
  /\ UNCHANGED << outroPrompts, rp, presetRef, callerPreset, runBase,
                  envContext, hookIter >>

\* Lines 224-227: the plugin's sub-interview settles.
PluginPromptEnd ==
  /\ pc = "plugin_prompt"
  /\ \/ /\ plugins' = PushPlugin(plugins,
                                 Resolved(cur.id, cur.apply, "answers"))
        /\ keys' = Tail(keys)
        /\ cur' = NoCur
        /\ trace' = Append(trace, End("plugin prompt"))
        /\ pc' = "resolve_loop"
        /\ UNCHANGED err
     \/ /\ Reject("plugin prompt")
        /\ UNCHANGED << plugins, keys, cur >>
  /\ UNCHANGED << host, savedOptions, cliOptions, isTestOrDebug, preset,
                  packageManager, shouldInitGit, afterInvokeCbs,
                  afterAnyInvokeCbs, idx1, idx2, nextCb, gitCommitFailed,
                  files, applied, invoked >>
  /\ UNCHANGED << outroPrompts, rp, presetRef, callerPreset, runBase,
                  envContext, hookIter >>

\* Lines 229 and 104: resolvePlugins returns.
ResolveDone ==
  /\ pc = "resolve_loop"
  /\ keys = << >>
  /\ trace' = Append(trace, End("resolvePlugins"))
  /\ pc' = Then("resolve")
  /\ UNCHANGED << host, savedOptions, cliOptions, isTestOrDebug, preset,
                  packageManager, shouldInitGit, keys, plugins, cur,
                  afterInvokeCbs, afterAnyInvokeCbs, idx1, idx2, nextCb,
                  gitCommitFailed, files, applied, invoked, err >>
  /\ UNCHANGED << outroPrompts, rp, presetRef, callerPreset, runBase,
                  envContext, hookIter >>

-----------------------------------------------------------------------------
(* The generator collaborator (./Generator) *)

\* What one apply registers: nothing, an afterInvoke callback or an
\* afterAnyInvoke callback. The no-op of line 217 registers nothing.
HookChoices(pl) == IF pl.apply = "noop" THEN {"none"} ELSE {"none", "invoke", "any"}

\* The ids of the plugins in the order their apply is invoked.
RECURSIVE ApplyOrder(_)
ApplyOrder(pls) ==
  IF pls = << >> THEN << >> ELSE << Head(pls).id >> \o ApplyOrder(Tail(pls))

\* The hook lists and the callback counter after the applies of pls have
\* run in order, apply i registering reg[i].
RECURSIVE RunApplies(_, _, _, _)
RunApplies(pls, reg, i, st) ==
  IF i > Len(pls) THEN st
  ELSE RunApplies(pls, reg, i + 1,
         CASE reg[i] = "invoke" ->
                [st EXCEPT !.inv = Append(@, st.next), !.next = @ + 1]
           [] reg[i] = "any" ->
                [st EXCEPT !.any = Append(@, st.next), !.next = @ + 1]
           [] OTHER -> st)

\* Lines 105-110: new Generator(context, { pkg, plugins, afterInvokeCbs,
\* afterAnyInvokeCbs }).
NewGenerator ==
  /\ pc = "generator"
  /\ \E reg \in [1..Len(plugins) -> {"none", "invoke", "any"}] :
       /\ \A i \in 1..Len(plugins) : reg[i] \in HookChoices(plugins[i])
       /\ LET st == RunApplies(plugins, reg, 1,
                      [inv |-> afterInvokeCbs, any |-> afterAnyInvokeCbs,
                       next |-> nextCb]) IN
            /\ st.next <= MaxCbs + 1
            /\ afterInvokeCbs' = st.inv
            /\ afterAnyInvokeCbs' = st.any
            /\ nextCb' = st.next
  /\ applied' = applied \o ApplyOrder(plugins)
  /\ files' = files \cup {"src"}
  /\ trace' = trace \o << Begin("generator"), End("generator") >>
  /\ pc' = Then("generator")
  /\ UNCHANGED << host, savedOptions, cliOptions, isTestOrDebug, preset,
                  packageManager, shouldInitGit, keys, plugins, cur, idx1,
                  idx2, gitCommitFailed, invoked, err >>
  /\ UNCHANGED << outroPrompts, rp, presetRef, callerPreset, runBase,
                  envContext, hookIter >>

-----------------------------------------------------------------------------
\* Variant: the test/debug signal is ignored.
InstallWanted_Always == TRUE

\* Line 115.
InstallWanted == ~isTestOrDebug

\* Lines 112-117.
Install ==
  /\ pc = "install"
  /\ IF InstallWanted
       THEN /\ trace' = Append(trace, Begin("install"))
            /\ pc' = "install_w"
       ELSE /\ pc' = Then("install")
            /\ UNCHANGED trace
  /\ UNCHANGED << host, savedOptions, cliOptions, isTestOrDebug, preset,
                  packageManager, shouldInitGit, keys, plugins, cur,
                  afterInvokeCbs, afterAnyInvokeCbs, idx1, idx2, nextCb,
                  gitCommitFailed, files, applied, invoked, err >>
  /\ UNCHANGED << outroPrompts, rp, presetRef, callerPreset, runBase,
                  envContext, hookIter >>

\* Line 116: pm.install() settles.
EndInstall ==
  /\ pc = "install_w"
  /\ \/ /\ files' = files \cup {"node_modules"}
        /\ trace' = Append(trace, End("install"))
        /\ pc' = Then("install")
        /\ UNCHANGED err
     \/ /\ Reject("install")
        /\ UNCHANGED files
  /\ UNCHANGED << host, savedOptions, cliOptions, isTestOrDebug, preset,
                  packageManager, shouldInitGit, keys, plugins, cur,
                  afterInvokeCbs, afterAnyInvokeCbs, idx1, idx2, nextCb,
                  gitCommitFailed, applied, invoked >>
  /\ UNCHANGED << outroPrompts, rp, presetRef, callerPreset, runBase,
                  envContext, hookIter >>

-----------------------------------------------------------------------------
(* Lines 119-126: the hook step *)

\* Variant: the two loops iterate each other's array.
HookList_Swapped(loop) == IF loop = 1 THEN afterAnyInvokeCbs ELSE afterInvokeCbs

\* The array each for...of loop iterates.
HookList(loop) == IF loop = 1 THEN afterInvokeCbs ELSE afterAnyInvokeCbs
HookIdx(loop) == IF loop = 1 THEN idx1 ELSE idx2
HookPc(loop) == IF loop = 1 THEN "hooks1" ELSE "hooks2"
HookWait(loop) == IF loop = 1 THEN "hook1_w" ELSE "hook2_w"
HookOp(loop) == IF loop = 1 THEN "afterInvoke hook" ELSE "afterAnyInvoke hook"

\* The iterator yields the next callback, which is called, or the loop ends.
\* The iterator reads the array's length at every step.
HookNext(loop) ==
  /\ pc = HookPc(loop)
  /\ IF HookIdx(loop) < Len(HookList(loop))
       THEN /\ invoked' = Append(invoked, HookList(loop)[HookIdx(loop) + 1])
            /\ idx1' = IF loop = 1 THEN idx1 + 1 ELSE idx1
            /\ idx2' = IF loop = 2 THEN idx2 + 1 ELSE idx2
            /\ trace' = Append(trace, Begin(HookOp(loop)))
            /\ pc' = HookWait(loop)
       ELSE /\ pc' = Then(HookPc(loop))
            /\ UNCHANGED << invoked, idx1, idx2, trace >>
  /\ UNCHANGED << host, savedOptions, cliOptions, isTestOrDebug, preset,
                  packageManager, shouldInitGit, keys, plugins, cur,
                  afterInvokeCbs, afterAnyInvokeCbs, nextCb, gitCommitFailed,
                  files, applied, err >>
  /\ UNCHANGED << outroPrompts, rp, presetRef, callerPreset, runBase,
                  envContext, hookIter >>

\* What a callback does to the hook lists before it settles: nothing, or it
\* registers one more callback on either list.
HookEffect(eff) ==
  CASE eff = "invoke" ->
         /\ nextCb <= MaxCbs
         /\ afterInvokeCbs' = Append(afterInvokeCbs, nextCb)
         /\ nextCb' = nextCb + 1
         /\ UNCHANGED afterAnyInvokeCbs
    [] eff = "any" ->
         /\ nextCb <= MaxCbs
         /\ afterAnyInvokeCbs' = Append(afterAnyInvokeCbs, nextCb)
         /\ nextCb' = nextCb + 1
         /\ UNCHANGED afterInvokeCbs
    [] OTHER -> UNCHANGED << afterInvokeCbs, afterAnyInvokeCbs, nextCb >>

Pushed(eff) ==
  CASE eff = "invoke" -> << << "push", "afterInvokeCbs" >> >>
    [] eff = "any" -> << << "push", "afterAnyInvokeCbs" >> >>
    [] OTHER -> << >>

\* Lines 122 and 125: the awaited callback settles.
HookEnd(loop) ==
  /\ pc = HookWait(loop)
  /\ \/ /\ \E eff \in {"none", "invoke", "any"} :
             /\ HookEffect(eff)
             /\ trace' = trace \o Pushed(eff) \o << End(HookOp(loop)) >>
        /\ pc' = HookPc(loop)
        /\ UNCHANGED err
     \/ /\ Reject(HookOp(loop))
        /\ UNCHANGED << afterInvokeCbs, afterAnyInvokeCbs, nextCb >>
  /\ UNCHANGED << host, savedOptions, cliOptions, isTestOrDebug, preset,
                  packageManager, shouldInitGit, keys, plugins, cur, idx1,
                  idx2, gitCommitFailed, files, applied, invoked >>
  /\ UNCHANGED << outroPrompts, rp, presetRef, callerPreset, runBase,
                  envContext, hookIter >>

-----------------------------------------------------------------------------
\* Lines 128-134: the README write starts.
BeginReadme ==
  /\ pc = "readme"
  /\ trace' = Append(trace, Begin("write README.md"))
  /\ pc' = "readme_w"
  /\ UNCHANGED << host, savedOptions, cliOptions, isTestOrDebug, preset,
                  packageManager, shouldInitGit, keys, plugins, cur,
                  afterInvokeCbs, afterAnyInvokeCbs, idx1, idx2, nextCb,
                  gitCommitFailed, files, applied, invoked, err >>
  /\ UNCHANGED << outroPrompts, rp, presetRef, callerPreset, runBase,
                  envContext, hookIter >>

\* Line 132: writeFileTree settles.
EndReadme ==
  /\ pc = "readme_w"
  /\ \/ /\ files' = files \cup {"README.md"}
        /\ trace' = Append(trace, End("write README.md"))
        /\ pc' = Then("readme")
        /\ UNCHANGED err
     \/ /\ Reject("write README.md")
        /\ UNCHANGED files
  /\ UNCHANGED << host, savedOptions, cliOptions, isTestOrDebug, preset,
                  packageManager, shouldInitGit, keys, plugins, cur,
                  afterInvokeCbs, afterAnyInvokeCbs, idx1, idx2, nextCb,
                  gitCommitFailed, applied, invoked >>
  /\ UNCHANGED << outroPrompts, rp, presetRef, callerPreset, runBase,
                  envContext, hookIter >>

\* Lines 136-138.
GitAdd ==
  /\ pc = "commit"
  /\ gitCommitFailed' = FALSE
  /\ IF shouldInitGit
       THEN /\ trace' = Append(trace, Begin("git add"))
            /\ pc' = "gitadd_w"
       ELSE /\ pc' = Then("commit")
            /\ UNCHANGED trace
  /\ UNCHANGED << host, savedOptions, cliOptions, isTestOrDebug, preset,
                  packageManager, shouldInitGit, keys, plugins, cur,
                  afterInvokeCbs, afterAnyInvokeCbs, idx1, idx2, nextCb,
                  files, applied, invoked, err >>
  /\ UNCHANGED << outroPrompts, rp, presetRef, callerPreset, runBase,
                  envContext, hookIter >>

\* Lines 138-140: `git add -A` exits; on success `git commit` is spawned.
EndGitAdd ==
  /\ pc = "gitadd_w"
  /\ \/ /\ trace' = trace \o << End("git add"), Begin("git commit") >>
        /\ pc' = "commit_w"
        /\ UNCHANGED err
     \/ Reject("git add")
  /\ UNCHANGED << host, savedOptions, cliOptions, isTestOrDebug, preset,
                  packageManager, shouldInitGit, keys, plugins, cur,
                  afterInvokeCbs, afterAnyInvokeCbs, idx1, idx2, nextCb,
                  gitCommitFailed, files, applied, invoked >>
  /\ UNCHANGED << outroPrompts, rp, presetRef, callerPreset, runBase,
                  envContext, hookIter >>

\* Variant: the try/catch around `git commit` is missing.
EndCommit_Uncaught ==
  /\ pc = "commit_w"
  /\ \/ /\ trace' = Append(trace, << "end", "git commit" >>)
        /\ pc' = "report"
        /\ UNCHANGED err
     \/ /\ trace' = Append(trace, << "fail", "git commit" >>)
        /\ pc' = "failed"
        /\ err' = "git commit"
  /\ UNCHANGED << host, savedOptions, cliOptions, isTestOrDebug, preset,
                  packageManager, shouldInitGit, keys, plugins, cur,
                  afterInvokeCbs, afterAnyInvokeCbs, idx1, idx2, nextCb,
                  gitCommitFailed, files, applied, invoked >>
  /\ UNCHANGED << outroPrompts, rp, presetRef, callerPreset, runBase,
                  envContext, hookIter >>

\* Lines 139-144: `git commit` exits; a failure is caught.
EndCommit ==
  /\ pc = "commit_w"
  /\ \/ /\ trace' = Append(trace, End("git commit"))
        /\ UNCHANGED gitCommitFailed
     \/ /\ trace' = Append(trace, Fail("git commit"))
        /\ gitCommitFailed' = TRUE
  /\ pc' = Then("commit")
  /\ UNCHANGED << host, savedOptions, cliOptions, isTestOrDebug, preset,
                  packageManager, shouldInitGit, keys, plugins, cur,
                  afterInvokeCbs, afterAnyInvokeCbs, idx1, idx2, nextCb,
                  files, applied, invoked, err >>
  /\ UNCHANGED << outroPrompts, rp, presetRef, callerPreset, runBase,
                  envContext, hookIter >>

\* Lines 146-158: the completion report.
Report ==
  /\ pc = "report"
  /\ trace' = trace \o << << "log", "success" >> >>
                    \o (IF gitCommitFailed THEN << << "warn", "commit skipped" >> >>
                                           ELSE << >>)
                    \o << << "call", "printExitLogs" >> >>
  /\ pc' = "done"
  /\ UNCHANGED << host, savedOptions, cliOptions, isTestOrDebug, preset,
                  packageManager, shouldInitGit, keys, plugins, cur,
                  afterInvokeCbs, afterAnyInvokeCbs, idx1, idx2, nextCb,
                  gitCommitFailed, files, applied, invoked, err >>
  /\ UNCHANGED << outroPrompts, rp, presetRef, callerPreset, runBase,
                  envContext, hookIter >>

Next ==
  \/ Create
  \/ PromptAnswered
  \/ FetchSettled
  \/ PromptRejected
  \/ SelectStep
  \/ BeginManifest
  \/ EndManifest
  \/ GitInit
  \/ EndGitInit
  \/ ResolveStart
  \/ ResolveNext
  \/ PluginPromptEnd
  \/ ResolveDone
  \/ NewGenerator
  \/ Install
  \/ EndInstall
  \/ HookNext(1)
  \/ HookEnd(1)
  \/ HookNext(2)
  \/ HookEnd(2)
  \/ BeginReadme
  \/ EndReadme
  \/ GitAdd
  \/ EndGitAdd
  \/ EndCommit
  \/ Report

Spec == Init /\ [][Next]_vars

-----------------------------------------------------------------------------
(* Further calls on the same instance *)

\* Lines 54-60: create() is called again, without a preset, once the previous
\* call has returned or thrown. The instance keeps its hook lists (45-46 are
\* the only assignments to them); the process keeps its environment.
CreateAgain ==
  /\ pc \in {"done", "failed"}
  /\ rp.state # "fetching"
  /\ pc' = "prompt"
  /\ trace' = << Begin("interview") >>
  /\ preset' = Undefined
  /\ callerPreset' = Undefined
  /\ presetRef' = NoRef
  /\ rp' = NoCall
  /\ packageManager' = None
  /\ shouldInitGit' = FALSE
  /\ keys' = << >>
  /\ plugins' = << >>
  /\ cur' = NoCur
  /\ idx1' = 0
  /\ idx2' = 0
  /\ gitCommitFailed' = FALSE
  /\ applied' = << >>
  /\ invoked' = << >>
  /\ err' = None
  /\ runBase' = nextCb
  /\ UNCHANGED << host, savedOptions, cliOptions, isTestOrDebug,
                  afterInvokeCbs, afterAnyInvokeCbs, nextCb, files,
                  outroPrompts, envContext >>
  /\ UNCHANGED hookIter

\* Lines 179-190: resolvePreset(name) is called on the instance while no
\* create() call is running.
ResolvePresetCall ==
  /\ pc \in {"idle", "done", "failed"}
  /\ rp.state # "fetching"
  /\ \E name \in InterviewAnswers :
       rp' = EnterResolvePreset(name, savedOptions, "direct")
  /\ UNCHANGED << host, savedOptions, pc, cliOptions, isTestOrDebug, preset,
                  packageManager, shouldInitGit, keys, plugins, cur,
                  afterInvokeCbs, afterAnyInvokeCbs, idx1, idx2, nextCb,
                  gitCommitFailed, files, applied, invoked, trace, err,
                  outroPrompts, presetRef, callerPreset, runBase,
                  envContext >>
  /\ UNCHANGED hookIter

\* Lines 190-196 and 211: the fetch of that call settles.
DirectFetchSettled ==
  /\ pc \in {"idle", "done", "failed"}
  /\ rp.state = "fetching"
  /\ \/ \E p \in RemotePresets : rp' = FetchSucceeded(rp, p)
     \/ rp' = FetchFailed(rp)
  /\ UNCHANGED << host, savedOptions, pc, cliOptions, isTestOrDebug, preset,
                  packageManager, shouldInitGit, keys, plugins, cur,
                  afterInvokeCbs, afterAnyInvokeCbs, idx1, idx2, nextCb,
                  gitCommitFailed, files, applied, invoked, trace, err,
                  outroPrompts, presetRef, callerPreset, runBase,
                  envContext >>
  /\ UNCHANGED hookIter

\* The preset p after a write to the options object of its k-th plugin.
MutateAt(p, k) == [p EXCEPT !.plugins.entries[k].opts = "mutated"]

\* A plugin's generator writes to the options object it was handed: the raw
\* options object of the working preset (line 218), unless that was falsy or
\* was replaced by the answers. The write shows in every object that shares
\* it.
PluginMutatesOptions ==
  /\ pc = "install"
  /\ \E k \in 1..Len(plugins) :
       /\ plugins[k].apply = "generator"
       /\ plugins[k].options = "plain"
       /\ preset.plugins.entries[k].opts = "plain"
       /\ plugins' = [plugins EXCEPT ![k].options = "mutated"]
       /\ preset' = MutateAt(preset, k)
       /\ savedOptions' =
            IF presetRef.kind = "store"
              THEN [savedOptions EXCEPT
                      !.presets[presetRef.name] = MutateAt(@, k)]
              ELSE savedOptions
       /\ callerPreset' =
            IF presetRef.kind = "caller" THEN MutateAt(callerPreset, k)
                                         ELSE callerPreset
  /\ UNCHANGED << host, pc, cliOptions, isTestOrDebug, packageManager,
                  shouldInitGit, keys, cur, afterInvokeCbs, afterAnyInvokeCbs,
                  idx1, idx2, nextCb, gitCommitFailed, files, applied,
                  invoked, trace, err, outroPrompts, rp, presetRef, runBase,
                  envContext >>
  /\ UNCHANGED hookIter

\* An instance built where git is installed, Yarn and PNPM are not, and no
\* package manager is saved.
InitCalls ==
  /\ Init
  /\ host = [git |-> TRUE, yarn |-> FALSE, pnpm |-> FALSE]
  /\ savedOptions.packageManager = None

NextCalls ==
  \/ Next
  \/ CreateAgain
  \/ ResolvePresetCall
  \/ DirectFetchSettled
  \/ PluginMutatesOptions

SpecCalls == InitCalls /\ [][NextCalls]_vars

-----------------------------------------------------------------------------
(* A second instance in the same process *)

\* The positions at which create() is suspended on an await, where other code
\* of the process can run.
Awaiting == {"prompt", "fetch", "manifest_w", "gitinit_w", "plugin_prompt",
             "install_w", "hook1_w", "hook2_w", "readme_w", "gitadd_w",
             "commit_w"}

\* Line 38, in the constructor of another Creator built with another context,
\* before or between the steps of this instance's create() call:
\* this.context = process.env.VUE_CLI_CONTEXT = context
OtherCreatorBuilt ==
  /\ pc \in {"idle", "done", "failed"} \cup Awaiting
  /\ envContext' = OtherContext
  /\ UNCHANGED << host, savedOptions, pc, cliOptions, isTestOrDebug, preset,
                  packageManager, shouldInitGit, keys, plugins, cur,
                  afterInvokeCbs, afterAnyInvokeCbs, idx1, idx2, nextCb,
                  gitCommitFailed, files, applied, invoked, trace, err,
                  outroPrompts, rp, presetRef, callerPreset, runBase >>
  /\ UNCHANGED hookIter

NextTwo ==
  \/ Next
  \/ OtherCreatorBuilt

SpecTwo == InitCalls /\ [][NextTwo]_vars

-----------------------------------------------------------------------------
(* The hook step with callbacks that register callbacks without end *)

\* What a callback does each time it is invoked: nothing to the lists, or it
\* appends itself to afterInvokeCbs, or it appends itself to
\* afterAnyInvokeCbs.
Kinds == {"plain", "again1", "again2"}

\* The entries of the list that the iterator of loop l has not yielded yet.
Rest(l) == IF l = 1 THEN hookIter.rest1 ELSE hookIter.rest2

\* The iterator stays on the entry it yielded.
Yield_Stuck(rest) == rest

\* Lines 121 and 124: the iterator of for...of moves past the entry it yields.
Yield(rest) == Tail(rest)

\* Line 121: the first loop is entered. The callbacks that the generator
\* registered are of some kind each; of a list only the entries still to be
\* yielded are kept, so that a list which grows at its end as fast as it is
\* iterated is one state and not ever longer ones.
LoopEnter ==
  /\ pc = "hooks1"
  /\ ~hookIter.entered
  /\ \E k1 \in [1..Len(afterInvokeCbs) -> Kinds],
        k2 \in [1..Len(afterAnyInvokeCbs) -> Kinds] :
       hookIter' = [NoLoop EXCEPT !.entered = TRUE, !.rest1 = k1, !.rest2 = k2]
  /\ UNCHANGED << host, savedOptions, pc, cliOptions, isTestOrDebug, preset,
                  packageManager, shouldInitGit, keys, plugins, cur,
                  afterInvokeCbs, afterAnyInvokeCbs, idx1, idx2, nextCb,
                  gitCommitFailed, files, applied, invoked, trace, err,
                  outroPrompts, rp, presetRef, callerPreset, runBase,
                  envContext >>

\* Lines 121-122 and 124-125: the iterator of loop l yields the next callback,
\* which is called, or the loop ends.
LoopNext(l) ==
  /\ pc = HookPc(l)
  /\ hookIter.entered
  /\ IF Rest(l) # << >>
       THEN /\ hookIter' = [hookIter EXCEPT !.running = Head(Rest(l)),
                                    !.rest1 = IF l = 1 THEN Yield(@) ELSE @,
                                    !.rest2 = IF l = 2 THEN Yield(@) ELSE @,
                                    !.lastPush = "none"]
            /\ pc' = HookWait(l)
       ELSE /\ hookIter' = [hookIter EXCEPT !.lastPush = "none"]
            /\ pc' = Then(HookPc(l))
  /\ UNCHANGED << host, savedOptions, cliOptions, isTestOrDebug, preset,
                  packageManager, shouldInitGit, keys, plugins, cur,
                  afterInvokeCbs, afterAnyInvokeCbs, idx1, idx2, nextCb,
                  gitCommitFailed, files, applied, invoked, trace, err,
                  outroPrompts, rp, presetRef, callerPreset, runBase,
                  envContext >>

\* Lines 122 and 125: the awaited callback settles, having appended what its
\* kind appends, or rejects.
LoopEnd(l) ==
  /\ pc = HookWait(l)
  /\ hookIter.entered
  /\ \/ /\ hookIter' =
             CASE hookIter.running = "again1" ->
                    [hookIter EXCEPT !.rest1 = Append(@, "again1"),
                                 !.lastPush = "afterInvokeCbs",
                                 !.pushed = TRUE, !.running = "none"]
               [] hookIter.running = "again2" ->
                    [hookIter EXCEPT !.rest2 = Append(@, "again2"),
                                 !.lastPush = "afterAnyInvokeCbs",
                                 !.pushed = TRUE, !.running = "none"]
               [] OTHER -> [hookIter EXCEPT !.running = "none"]
        /\ pc' = HookPc(l)
        /\ UNCHANGED << err, trace >>
     \/ /\ Reject(HookOp(l))
        /\ hookIter' = [hookIter EXCEPT !.running = "none"]
  /\ UNCHANGED << host, savedOptions, cliOptions, isTestOrDebug, preset,
                  packageManager, shouldInitGit, keys, plugins, cur,
                  afterInvokeCbs, afterAnyInvokeCbs, idx1, idx2, nextCb,
                  gitCommitFailed, files, applied, invoked, outroPrompts, rp,
                  presetRef, callerPreset, runBase, envContext >>

\* The steps of create(), the hook step taken through its iterators.
NextFair ==
  \/ Create
  \/ PromptAnswered
  \/ FetchSettled
  \/ PromptRejected
  \/ SelectStep
  \/ BeginManifest
  \/ EndManifest
  \/ GitInit
  \/ EndGitInit
  \/ ResolveStart
  \/ ResolveNext
  \/ PluginPromptEnd
  \/ ResolveDone
  \/ NewGenerator
  \/ Install
  \/ EndInstall
  \/ LoopEnter
  \/ LoopNext(1)
  \/ LoopEnd(1)
  \/ LoopNext(2)
  \/ LoopEnd(2)
  \/ BeginReadme
  \/ EndReadme
  \/ GitAdd
  \/ EndGitAdd
  \/ EndCommit
  \/ Report

\* Every step that can be taken is taken in the end: the engine runs the code
\* that is ready to run, and every awaited operation returns or fails.
SpecFair == InitCalls /\ [][NextFair]_vars /\ WF_vars(NextFair)
-----------------------------------------------------------------------------
(* Reading the trace *)

Has(ev) == \E i \in 1..Len(trace) : trace[i] = ev
Count(ev) == Cardinality({i \in 1..Len(trace) : trace[i] = ev})
LastIs(ev) == Len(trace) > 0 /\ trace[Len(trace)] = ev

\* The side-effecting steps of create(), in the order of the workflow.
StepOps == << "write package.json", "git init", "resolvePlugins", "generator",
              "install", "afterInvoke hook", "afterAnyInvoke hook",
              "write README.md", "git add", "git commit" >>
StepSet == {StepOps[r] : r \in 1..Len(StepOps)}
Rank(op) ==
  CASE op = "write package.json" -> 1
    [] op = "git init" -> 2
    [] op = "resolvePlugins" -> 3
    [] op = "generator" -> 4
    [] op = "install" -> 5
    [] op = "afterInvoke hook" -> 6
    [] op = "afterAnyInvoke hook" -> 7
    [] op = "write README.md" -> 8
    [] op = "git add" -> 9
    [] OTHER -> 10
IsHook(op) == op \in {"afterInvoke hook", "afterAnyInvoke hook"}

\* Positions of the trace at which a step starts.
StepBegins == {i \in 1..Len(trace) : trace[i][1] = "begin" /\ trace[i][2] \in StepSet}

\* The steps a run cannot skip before it starts step op.
RequiredBefore(op) ==
  {q \in StepSet :
     /\ Rank(q) < Rank(op)
     /\ \/ q \in {"write package.json", "resolvePlugins", "generator", "write README.md"}
        \/ q \in {"git init", "git add"} /\ shouldInitGit
        \/ q = "install" /\ ~isTestOrDebug}

GitOps == {"git init", "git add", "git commit"}
SpawnOps == GitOps \cup {"install"}
NoGitActivity ==
  /\ ~Has(Emit("git-init"))
  /\ \A op \in GitOps : ~Has(Begin(op))

\* Positions of create() after the hook step, failure excluded.
AfterHooks == {"readme", "readme_w", "commit", "gitadd_w", "commit_w", "report", "done"}
AfterInstall == AfterHooks \cup {"hooks1", "hook1_w", "hooks2", "hook2_w"}

-----------------------------------------------------------------------------
(* Claims *)

\* C1: the side-effecting steps of a run start in the fixed workflow order
\* (manifest, git init, plugin resolution, generator, install, hooks, README,
\* git add, git commit), none is started again once a later one has started,
\* none starts while the step before it is still pending, and none starts
\* before the steps this run cannot skip have started.
C1_StepsInFixedOrder ==
  LET begins == StepBegins IN
    \A i \in begins :
      LET op == trace[i][2]
          before == {j \in begins : j < i} IN
        /\ before # {} =>
             LET j == CHOOSE x \in before : \A y \in before : y <= x
                 prev == trace[j][2] IN
               /\ Rank(prev) < Rank(op) \/ (prev = op /\ IsHook(op))
               /\ \E k \in (j + 1)..(i - 1) : trace[k] \in {End(prev), Fail(prev)}
        /\ \A q \in RequiredBefore(op) : \E j \in before : trace[j][2] = q

\* C1 witness: a finished run that went through every step, hooks included.
C1_Witness ==
  /\ pc = "done"
  /\ shouldInitGit
  /\ ~isTestOrDebug
  /\ idx1 > 0
  /\ idx2 > 0

InvalidPreset(p) == ~p.present \/ p.plugins.kind # "map"

\* C2: once the preset of a run is known (passed by the caller or resolved
\* from the interview) and it is missing or its plugins value is missing or
\* not a map, the run writes no file, spawns no process and cannot get past
\* the point where the manifest write would start.
C2_InvalidPresetAbortsBeforeMutation ==
  (pc \notin {"idle", "prompt", "fetch"} /\ InvalidPreset(preset)) =>
    /\ files = {}
    /\ \A op \in SpawnOps : ~Has(Begin(op))
    /\ pc \in {"select", "manifest", "failed"}

\* C3: when hasGit() is false the run emits no git-init event and spawns no
\* git command, and a run that completes has written the manifest and the
\* README and has printed the completion report.
C3_NoGitToolNoGitActivity ==
  ~host.git =>
    /\ NoGitActivity
    /\ ~shouldInitGit
    /\ pc = "done" =>
         /\ {"package.json", "README.md"} \subseteq files
         /\ Has(<< "log", "success" >>)

\* C3 witness: a run completed on a host without git.
C3_Witness == pc = "done" /\ ~host.git /\ "README.md" \in files

\* C4: git is initialized exactly when git is detected and the CLI options
\* do not disable it; with git disabled by the CLI options there is no
\* git-init event and no git command.
C4_GitInitUnlessDisabled ==
  pc \notin {"idle", "prompt", "select", "manifest", "manifest_w", "gitinit", "failed"} =>
    /\ shouldInitGit <=> (host.git /\ cliOptions.git # "false")
    /\ Has(Begin("git init")) <=> (host.git /\ cliOptions.git # "false")
    /\ cliOptions.git = "false" => NoGitActivity

\* C5: a failed `git commit` does not fail the run: the run goes on to the
\* completion report; a completed run has printed the success report and
\* called printExitLogs, and has printed the skipped-commit warning exactly
\* when the commit was attempted and failed; no other run prints the warning.
C5_CommitFailureIsAWarning ==
  /\ Has(Fail("git commit")) =>
       /\ pc \in {"report", "done"}
       /\ err = None
  /\ pc = "done" =>
       /\ Has(<< "log", "success" >>)
       /\ Has(<< "call", "printExitLogs" >>)
       /\ Has(<< "warn", "commit skipped" >>)
            <=> (Has(Begin("git commit")) /\ Has(Fail("git commit")))
  /\ pc # "done" => ~Has(<< "warn", "commit skipped" >>)

\* C5 witness: a completed run whose commit failed.
C5_Witness ==
  /\ pc = "done"
  /\ Has(Fail("git commit"))
  /\ Has(<< "warn", "commit skipped" >>)

\* Callbacks registered on afterInvokeCbs by afterAnyInvoke callbacks, that
\* is after the loop over afterInvokeCbs has ended.
LatePushes ==
  Cardinality({i \in 1..Len(trace) :
                 /\ trace[i] = << "push", "afterInvokeCbs" >>
                 /\ \E j \in 1..(i - 1) : trace[j] = Begin("afterAnyInvoke hook")})

HookEvents(kind) ==
  Count(<< kind, "afterInvoke hook" >>) + Count(<< kind, "afterAnyInvoke hook" >>)

HookFailed == Has(Fail("afterInvoke hook")) \/ Has(Fail("afterAnyInvoke hook"))

\* The hook step: callbacks are called one at a time, those of afterInvokeCbs
\* before those of afterAnyInvokeCbs, each list in insertion order from its
\* first entry; a failing callback is the last one called.
HooksSequential ==
  /\ idx1 <= Len(afterInvokeCbs)
  /\ idx2 <= Len(afterAnyInvokeCbs)
  /\ invoked = SubSeq(afterInvokeCbs, 1, idx1) \o SubSeq(afterAnyInvokeCbs, 1, idx2)
  /\ Len(invoked) = HookEvents("begin")
  /\ LET pending == HookEvents("begin") - HookEvents("end") - HookEvents("fail") IN
       pending = (IF pc \in {"hook1_w", "hook2_w"} THEN 1 ELSE 0)
  /\ HookFailed =>
       /\ pc = "failed"
       /\ LastIs(Fail("afterInvoke hook")) \/ LastIs(Fail("afterAnyInvoke hook"))
       /\ HookEvents("fail") = 1

\* C6 as stated: once the hook step is over, every callback of afterInvokeCbs
\* and then every callback of afterAnyInvokeCbs has been invoked, in
\* insertion order, one at a time, and a failing callback is the last called.
C6_EveryHookInvoked ==
  /\ HooksSequential
  /\ pc \in AfterHooks => invoked = afterInvokeCbs \o afterAnyInvokeCbs

\* C6 amended: as above, except that the callbacks an afterAnyInvoke callback
\* appends to afterInvokeCbs (the loop over that list being over) are never
\* invoked: once the hook step is over, the callbacks invoked are those of
\* afterInvokeCbs without these late ones, then all of afterAnyInvokeCbs.
C6_HooksInOrderExceptLate ==
  /\ HooksSequential
  /\ pc \in AfterHooks =>
       /\ LatePushes <= Len(afterInvokeCbs)
       /\ invoked = SubSeq(afterInvokeCbs, 1, Len(afterInvokeCbs) - LatePushes)
                      \o afterAnyInvokeCbs

\* C6 witness: the hook step is over, callbacks of both lists were invoked.
C6_Witness ==
  /\ pc \in AfterHooks
  /\ idx1 > 0
  /\ idx2 > 0
  /\ afterInvokeCbs # afterAnyInvokeCbs

\* The awaited operations of create() whose rejection nothing catches.
FatalOps == {"write package.json", "git init", "plugin prompt", "install",
             "afterInvoke hook", "afterAnyInvoke hook", "write README.md",
             "git add"}

\* C7: when one of the uncaught operations (manifest write, git init, plugin
\* sub-interview, install, hook, README write, git add) fails, create()
\* rejects with that failure, the failure is the last thing the run does, no
\* success report is printed, and the files written so far stay.
C7_FatalFailuresPropagate ==
  /\ [](\A op \in FatalOps :
          Has(Fail(op)) =>
            /\ pc = "failed"
            /\ err = op
            /\ LastIs(Fail(op))
            /\ ~Has(<< "log", "success" >>)
            /\ ~Has(<< "call", "printExitLogs" >>))
  /\ [][/\ files \subseteq files'
        /\ pc = "failed" => UNCHANGED << pc, err, trace, files >>]_vars

\* C7 witness: the install failed after the manifest was written.
C7_Witness ==
  /\ pc = "failed"
  /\ err = "install"
  /\ "package.json" \in files

\* C8: when a run reaches dependency installation, plugin resolution has
\* returned, then the generator has run: the apply of each resolved plugin
\* was invoked once, in resolution order, and the project files exist.
C8_GeneratorBeforeInstall ==
  (pc = "install" \/ Has(Begin("install"))) =>
    /\ \E i, j \in 1..Len(trace) :
         /\ trace[i] = End("resolvePlugins")
         /\ trace[j] = Begin("generator")
         /\ i < j
         /\ \A k \in 1..Len(trace) : trace[k] = Begin("install") => j < k
    /\ Count(Begin("generator")) = 1
    /\ Len(applied) = Len(plugins)
    /\ \A i \in 1..Len(plugins) : applied[i] = plugins[i].id
    /\ "src" \in files

\* C8 witness: the install has started after a generator run over two
\* plugins that registered a callback.
C8_Witness ==
  /\ Has(Begin("install"))
  /\ Len(applied) = 2
  /\ Len(afterInvokeCbs) + Len(afterAnyInvokeCbs) > 0

\* C9: the package manager is the CLI option if set, else the saved one if
\* set, else yarn if Yarn is present, else pnpm if PNPM is present, else npm;
\* and it is chosen before the first file is written.
C9_PackageManagerPrecedence ==
  /\ packageManager # None =>
       /\ cliOptions.packageManager # None =>
            packageManager = cliOptions.packageManager
       /\ (cliOptions.packageManager = None /\ savedOptions.packageManager # None) =>
            packageManager = savedOptions.packageManager
       /\ (cliOptions.packageManager = None /\ savedOptions.packageManager = None) =>
            /\ host.yarn => packageManager = "yarn"
            /\ (~host.yarn /\ host.pnpm) => packageManager = "pnpm"
            /\ (~host.yarn /\ ~host.pnpm) => packageManager = "npm"
  /\ (files # {} \/ Has(Begin("write package.json"))) => packageManager # None
  /\ pc \notin {"idle", "prompt", "fetch", "select", "failed"} => packageManager # None

\* C9 witness: nothing set, no Yarn, PNPM present, and the manifest is written.
C9_Witness ==
  /\ packageManager = "pnpm"
  /\ cliOptions.packageManager = None
  /\ savedOptions.packageManager = None
  /\ ~host.yarn
  /\ "package.json" \in files

\* C10: pm.install() is started at most once in a run, never under the
\* test/debug signal, and exactly once by the time a run without the signal
\* is past the install step; a run under the signal that completes has run
\* both hook loops to their end, written the README and, when git was
\* initialized, attempted the commit.
C10_InstallOnceUnlessTestOrDebug ==
  LET n == Count(Begin("install")) IN
    /\ n <= 1
    /\ isTestOrDebug => n = 0
    /\ (pc \in AfterInstall /\ ~isTestOrDebug) => n = 1
    /\ (pc = "done" /\ isTestOrDebug) =>
         /\ idx1 + idx2 = Len(invoked)
         /\ idx2 = Len(afterAnyInvokeCbs)
         /\ "README.md" \in files
         /\ shouldInitGit => Has(Begin("git commit"))

\* C10 witness: a completed run under the signal, with hooks and a commit.
C10_Witness ==
  /\ pc = "done"
  /\ isTestOrDebug
  /\ Len(invoked) > 0
  /\ Has(Begin("git commit"))

-----------------------------------------------------------------------------
(* resolvePlugins *)

\* The keys of the preset's plugin map, in Object.keys order.
KeyIds ==
  LET es == ObjectEntries(preset.plugins) IN [i \in 1..Len(es) |-> es[i].id]

\* The raw options the preset gives its k-th plugin.
RawOf(k) == ObjectEntries(preset.plugins)[k].opts

\* resolvePlugins has been entered, has returned.
Resolving == Has(Begin("resolvePlugins"))
ResolvedAll == Has(End("resolvePlugins"))

\* C11: the resolved list holds one entry per key of the plugin map, in key
\* order, each carrying its key as id: while resolvePlugins runs the list is
\* the prefix for the keys handled so far, and once it has returned the list
\* covers every key.
C11_OneEntryPerKeyInOrder ==
  Resolving =>
    /\ Len(plugins) <= Len(KeyIds)
    /\ \A i \in 1..Len(plugins) : i <= Len(KeyIds) => plugins[i].id = KeyIds[i]
    /\ ResolvedAll => Len(plugins) = Len(KeyIds)

\* C11 witness: a two-key map has been resolved to its two entries.
C11_Witness ==
  /\ ResolvedAll
  /\ Len(plugins) = 2
  /\ plugins[1].id = "plugin-a"
  /\ plugins[2].id = "plugin-b"

\* C12: an entry's apply is the no-op exactly when its generator module was
\* not found, and the loaded generator otherwise; a missing generator module
\* is no failure (resolution fails only through a rejected sub-interview) and
\* every key still gets its entry.
C12_MissingGeneratorIsNoOp ==
  Resolving =>
    /\ \A i \in 1..Len(plugins) :
         plugins[i].apply =
           (IF Has(<< "no generator", plugins[i].id >>) THEN "noop"
                                                        ELSE "generator")
    /\ (pc = "failed" /\ ~ResolvedAll) => err = "plugin prompt"
    /\ ResolvedAll =>
         \A k \in 1..Len(KeyIds) :
           \E i \in 1..Len(plugins) : plugins[i].id = KeyIds[k]

\* C12 witness: the first plugin's generator module was missing and the
\* second plugin was resolved after it.
C12_Witness ==
  /\ ResolvedAll
  /\ Len(plugins) = 2
  /\ Has(<< "no generator", "plugin-a" >>)
  /\ plugins[1].apply = "noop"
  /\ plugins[2].apply = "generator"

\* The options of the i-th resolved entry agree with `otherwise` unless the
\* plugin's sub-interview ran, and then they are its answers.
OptionsAre(i, otherwise) ==
  plugins[i].options =
    (IF RawOf(i) = "prompts" /\ Has(<< "prompts found", plugins[i].id >>)
       THEN "answers" ELSE otherwise)

\* One sub-interview per plugin whose prompt schema was found.
OneSubInterviewPerSchema ==
  Count(Begin("plugin prompt")) =
    Cardinality({k \in 1..Len(KeyIds) : Has(<< "prompts found", KeyIds[k] >>)})

\* C13 as stated: the resolved options are the sub-interview's answers exactly
\* when the raw options carry the prompts flag and the prompt schema was
\* found, and the raw options unchanged in every other case.
C13_RawOptionsUnchanged ==
  Resolving =>
    /\ \A i \in 1..Len(plugins) : i <= Len(KeyIds) => OptionsAre(i, RawOf(i))
    /\ OneSubInterviewPerSchema

\* C13, amended: as above, but raw options that are falsy (null, undefined,
\* false) are resolved to an empty options object.
C13_RawOptionsOrEmptyObject ==
  Resolving =>
    /\ \A i \in 1..Len(plugins) :
         i <= Len(KeyIds) =>
           OptionsAre(i, IF RawOf(i) = "null" THEN "plain" ELSE RawOf(i))
    /\ OneSubInterviewPerSchema

\* C13 witness: of two plugins with the prompts flag aside, one kept its raw
\* options and the flagged one, whose schema was found, got the answers.
C13_Witness ==
  /\ ResolvedAll
  /\ Len(plugins) = 2
  /\ plugins[1].options = "plain"
  /\ plugins[2].options = "answers"
  /\ Has(<< "prompts found", "plugin-b" >>)

-----------------------------------------------------------------------------
(* resolveOutroPrompts *)

\* The positions of the value v among the choices of the prompt p.
ChoiceAt(p, v) == {i \in 1..Len(p.choices) : p.choices[i] = v}

-----------------------------------------------------------------------------
(* resolvePreset *)

\* loadRemotePreset rejected, resolved.
LoaderRejected == Has(<< "rejected", "loadRemotePreset" >>)
LoaderResolved == Has(<< "resolved", "loadRemotePreset" >>)

\* C16: once loadRemotePreset has rejected, resolvePreset has thrown after
\* that one fetch and the run has failed with that failure, nothing written
\* and no step of the pipeline begun; the fetch is never begun twice; and
\* the spinner is on while the fetch is awaited and off once it has settled
\* either way.
C16_FetchFailurePropagates ==
  /\ LoaderRejected =>
       /\ rp.state = "thrown"
       /\ pc = "failed"
       /\ err = "remote preset"
       /\ LastIs(Fail("remote preset"))
       /\ files = {}
       /\ \A op \in StepSet : ~Has(Begin(op))
  /\ rp.fetches <= 1
  /\ Count(Begin("remote preset")) <= 1
  /\ pc = "fetch" => rp.spinner = "on"
  /\ (LoaderRejected \/ LoaderResolved) => rp.spinner = "off"

\* C16 witness: a run whose remote fetch failed.
C16_Witness ==
  /\ LoaderRejected
  /\ rp.name = "owner/repo"
  /\ pc = "failed"

\* C15: a resolvePreset(name) call whose name is a key of the saved presets
\* has returned that saved preset without a call of the remote loader, "/"
\* in the name or not; otherwise a name with "/" has called the remote
\* loader once, and the call returns what the loader resolved with;
\* otherwise the call has returned undefined, no error raised and the remote
\* loader not called.
C15_ResolvePresetBranches ==
  rp.state # "none" =>
    LET saved == rp.name \in DOMAIN savedOptions.presets
        slash == rp.name \in SlashNames IN
      /\ saved =>
           /\ rp.state = "returned"
           /\ rp.fetches = 0
           /\ rp.result = savedOptions.presets[rp.name]
      /\ (~saved /\ slash) =>
           /\ rp.fetches = 1
           /\ rp.state = "returned" =>
                rp.loaded \in RemotePresets /\ rp.result = rp.loaded
      /\ (~saved /\ ~slash) =>
           /\ rp.state = "returned"
           /\ rp.fetches = 0
           /\ rp.result = Undefined

\* C15 witness: resolvePreset has been called with a saved name that has a
\* "/" in it and has returned the saved preset.
C15_Witness ==
  /\ rp.caller = "direct"
  /\ rp.name = "org/saved"
  /\ rp.state = "returned"
  /\ rp.result = PresetC

\* C14: whatever create() and resolvePreset calls have been made, the saved
\* presets are what they were, the preset the caller passed is what was
\* passed, and a resolvePreset call with a saved name returns the preset
\* saved under that name at the start.
C14_StoreNeverChanged ==
  /\ savedOptions.presets = SavedPresets
  /\ callerPreset \in CallerPresets
  /\ (rp.state = "returned" /\ rp.name \in DOMAIN SavedPresets) =>
       rp.result = SavedPresets[rp.name]

\* C14 witness: a run that resolved the saved preset "org/saved" is over, a
\* plugin has written to the options in its working preset, and a later
\* resolvePreset("org/saved") has returned the preset as it was saved.
C14_Witness ==
  /\ pc = "done"
  /\ presetRef = Ref("copy", "")
  /\ preset = MutateAt(PresetC, 1)
  /\ rp.caller = "direct"
  /\ rp.name = "org/saved"
  /\ rp.result = PresetC

-----------------------------------------------------------------------------
(* The hook lists over several calls *)

\* C18: every callback invoked in the hook step of a create() call was
\* appended to a hook list during that same call, and is invoked once in it:
\* no callback registered during an earlier call on the instance is invoked
\* again. (That every callback appended during the call is invoked is the
\* matter of C6.)
C18_OnlyCallbacksOfThisCall ==
  /\ \A i \in 1..Len(invoked) : invoked[i] >= runBase
  /\ \A i, j \in 1..Len(invoked) : invoked[i] = invoked[j] => i = j

-----------------------------------------------------------------------------
(* The process-wide context *)

\* C20: at every step of a create() run of the instance, VUE_CLI_CONTEXT is
\* the context of the instance, whatever other instances have been built in
\* the process meanwhile.
C20_EnvContextIsOwn ==
  pc \notin {"idle", "done", "failed"} => envContext = Context

-----------------------------------------------------------------------------
(* Termination *)

Terminated == pc \in {"done", "failed"}

\* C19 as stated: every create() run terminates in the end, at the report or
\* with an error, whatever the hook callbacks append while the hook step
\* iterates.
C19_RunTerminates == (pc # "idle") ~> Terminated

\* C19, amended: every create() run terminates in the end unless hook
\* callbacks go on appending callbacks for ever, that is, if from some point
\* on no callback that is invoked appends one.
C19_TerminatesUnlessAppendingForever ==
  <>[](hookIter.lastPush = "none") => ((pc # "idle") ~> Terminated)

\* C19 witness: a run has reached its report although callbacks were appended
\* while the hook step was iterating.
C19_Witness ==
  /\ pc = "done"
  /\ hookIter.pushed

====
